---- MODULE Spec2Model ----
(***************************************************************************)
(* The HTTP stream element of components/audio_stream/http_stream.c as a   *)
(* state machine.  One action per element callback (_http_open,            *)
(* _http_read, _http_write, _http_close) plus the two framework setters    *)
(* whose values the callbacks read (the URI and the element state).        *)
(*                                                                         *)
(* Byte counts (byte_pos, total_bytes, read and write lengths) are         *)
(* measured in blocks of 2^29 bytes.  audio_element_info_t.byte_pos is a   *)
(* 64 bit integer and a C int has 32 bits, so an int holds the block       *)
(* counts -4 .. 3 and the cast (int)info.byte_pos wraps modulo 8 blocks.   *)
(* Every count the model draws is a whole number of blocks, for which the  *)
(* wrap-around is exact.                                                   *)
(*                                                                         *)
(* C strings are sequences of character codes, so that strcasecmp is       *)
(* computed and not assumed.                                               *)
(***************************************************************************)
EXTENDS Integers, Sequences, FiniteSets, TLC

VARIABLES
    stream_type,  \* http_stream_t.stream_type, fixed by http_stream_init
    hook,         \* http_stream_t.hook is registered (non-NULL)
    uri,          \* the element's URI is set (audio_element_get_uri # NULL)
    el_state,     \* audio_element_get_state(self)
    is_open,      \* http_stream_t.is_open
    client,       \* http_stream_t.client: NULL or a transport handle
    live,         \* handles returned by esp_http_client_init, not yet cleaned up
    nextHandle,   \* the handle the next successful esp_http_client_init returns
    info,         \* the element's published audio_element_info_t
    op,           \* the callback that ran last
    ret,          \* its return value
    calls,        \* the transport calls and hook dispatches it made, in order
    headers,      \* the response headers the transport delivered during it
    stale_write,  \* it wrote through the info pointer of an _http_open that had returned
    hist          \* history: the reader's open/read/close cycle so far

vars == <<stream_type, hook, uri, el_state, is_open, client, live, nextHandle,
          info, op, ret, calls, headers, stale_write, hist>>

-----------------------------------------------------------------------------
\* Bounds of the model.

\* Transport handles esp_http_client_init can hand out before it runs out of memory.
MaxHandles == 2

\* Largest byte_pos (in blocks) the reads are followed to.
MaxPos == 5

-----------------------------------------------------------------------------
\* Program constants.

ESP_OK == 0

ESP_FAIL == -1

ESP_ERR_NO_MEM == 257

\* Status code the reader's open compares against.
HTTP_OK == 200

\* Blocks a 32 bit int spans: 2^32 bytes / 2^29 bytes per block.
IntSpan == 8

NULL == 0

AUDIO_STREAM_READER == "AUDIO_STREAM_READER"

AUDIO_STREAM_WRITER == "AUDIO_STREAM_WRITER"

AEL_STATE_PAUSED == "AEL_STATE_PAUSED"

\* The element states the framework moves the element through.
ElStates == {"AEL_STATE_INIT", "AEL_STATE_RUNNING", AEL_STATE_PAUSED}

\* Values a user hook returns: fail, defer, handled that many blocks.
HookRets == {-1, 0, 2}

\* Results of esp_http_client_open.
OpenErrs == {ESP_OK, ESP_FAIL}

\* Results of esp_http_client_read: error, end of data, a count.
ReadRets == {-1, 0, 2}

\* Lengths of the request body pre-set on the transport.
PostLens == {0, 1}

\* Buffer lengths the pipeline hands to _http_read.
ReadLens == {2}

\* Lengths the pipeline hands to _http_write.
WriteLens == {1}

\* Results of esp_http_client_fetch_headers: chunked, a content length.
TotalLens == {0, 3}

\* Response status codes.
StatusCodes == {HTTP_OK, 404}

-----------------------------------------------------------------------------
\* C strings as sequences of character codes.

K_ContentType == <<67, 111, 110, 116, 101, 110, 116, 45, 84, 121, 112, 101>>

K_content_disposition == <<99, 111, 110, 116, 101, 110, 116, 45, 100, 105, 115, 112, 111, 115, 105, 116, 105, 111, 110>>

K_ContentDisposition == <<67, 111, 110, 116, 101, 110, 116, 45, 68, 105, 115, 112, 111, 115, 105, 116, 105, 111, 110>>

K_ContentLength == <<67, 111, 110, 116, 101, 110, 116, 45, 76, 101, 110, 103, 116, 104>>

S_audio_mp3 == <<97, 117, 100, 105, 111, 47, 109, 112, 51>>

S_audio_mpeg == <<97, 117, 100, 105, 111, 47, 109, 112, 101, 103>>

S_audio_aac == <<97, 117, 100, 105, 111, 47, 97, 97, 99>>

S_audio_wav == <<97, 117, 100, 105, 111, 47, 119, 97, 118>>

S_audio_opus == <<97, 117, 100, 105, 111, 47, 111, 112, 117, 115>>

V_AUDIO_AAC == <<65, 85, 68, 73, 79, 47, 65, 65, 67>>

V_5 == <<53>>

V_AUDIO_MPEG == <<65, 85, 68, 73, 79, 47, 77, 80, 69, 71>>

V_wav_param == <<97, 117, 100, 105, 111, 47, 119, 97, 118, 59, 113, 61, 49>>

V_text_html == <<116, 101, 120, 116, 47, 104, 116, 109, 108>>

\* tolower() on one character code.
tolower(c) == IF c >= 65 /\ c <= 90 THEN c + 32 ELSE c

\* The character at position i of a C string; the terminating NUL past its end.
CharAt(s, i) == IF i <= Len(s) THEN s[i] ELSE 0

RECURSIVE strcasecmp_from(_, _, _)
strcasecmp_from(a, b, i) ==
    LET ca == tolower(CharAt(a, i))
        cb == tolower(CharAt(b, i))
    IN IF ca # cb THEN ca - cb
       ELSE IF ca = 0 THEN 0
       ELSE strcasecmp_from(a, b, i + 1)

\* strcasecmp(a, b): 0 when equal ignoring case, else the difference of the
\* first characters that differ.
strcasecmp(a, b) == strcasecmp_from(a, b, 1)

\* get_audio_type: each test is the C truth value of strcasecmp's result,
\* that is, "differs from the marker".
get_audio_type(content_type) ==
    IF strcasecmp(content_type, S_audio_mp3) # 0 THEN "AUDIO_CODEC_MP3"
    ELSE IF strcasecmp(content_type, S_audio_mpeg) # 0 THEN "AUDIO_CODEC_MP3"
    ELSE IF strcasecmp(content_type, S_audio_aac) # 0 THEN "AUDIO_CODEC_AAC"
    ELSE IF strcasecmp(content_type, S_audio_wav) # 0 THEN "AUDIO_CODEC_WAV"
    ELSE IF strcasecmp(content_type, S_audio_opus) # 0 THEN "AUDIO_CODEC_OPUS"
    ELSE "AUDIO_CODEC_NONE"

\* The header names _http_event_handle acts on.
IsCodecHeader(key) ==
    strcasecmp(key, K_ContentDisposition) = 0 \/ strcasecmp(key, K_ContentType) = 0

\* _http_event_handle for one HTTP_EVENT_ON_HEADER event, on the info record
\* evt->user_data points to.
http_event_handle(inf, hdr) ==
    IF IsCodecHeader(hdr.key)
    THEN [inf EXCEPT !.codec_fmt = get_audio_type(hdr.value)]
    ELSE inf

\* The event handler applied to the headers of one fetch, in arrival order.
RECURSIVE ObserveHeaders(_, _)
ObserveHeaders(inf, hs) ==
    IF hs = <<>> THEN inf
    ELSE ObserveHeaders(http_event_handle(inf, Head(hs)), Tail(hs))

Header(k, v) == [key |-> k, value |-> v]

\* The header sequences one fetch delivers: the responses of the servers the
\* element talks to.
HeaderSeqs ==
    { <<>>,
      <<Header(K_ContentLength, V_5)>>,
      <<Header(K_ContentType, S_audio_mpeg)>>,
      <<Header(K_ContentLength, V_5), Header(K_content_disposition, V_AUDIO_AAC)>> }

\* Most headers of one response in the header observer's own specification.
MaxSniffHeaders == 2

\* The header names and values of those responses.
SniffKeys == {K_ContentType, K_content_disposition, K_ContentLength}

SniffValues == {S_audio_mp3, V_AUDIO_MPEG, S_audio_aac, V_AUDIO_AAC, V_wav_param,
                S_audio_opus, V_text_html}

SniffHeaders == {Header(k, v) : k \in SniffKeys, v \in SniffValues}

-----------------------------------------------------------------------------
\* Records of the calls one callback makes.

Call(f, h, a) == [f |-> f, h |-> h, a |-> a]

\* A transport call that returns a result the callback looks at: the call with
\* its argument a, followed by the record of its result r.
CallRet(f, h, a, r) == <<Call(f, h, a), Call(f \o "_returned", h, r)>>

\* (int)v for a 64 bit v, in blocks.
ToInt(v) == ((v + IntSpan \div 2) % IntSpan) - IntSpan \div 2

\* What dispatch_hook returns: the hook's value, ESP_OK when none is registered.
dispatch_hook == IF hook THEN HookRets ELSE {ESP_OK}

\* What esp_http_client_init returns: NULL when out of memory, else a fresh handle.
InitResults == {NULL} \cup (IF nextHandle <= MaxHandles THEN {nextHandle} ELSE {})

NoHist == [phase |-> "none", P |-> 0, S |-> 0]

\* The handles the calls tr create (esp_http_client_init returned them).
Created(tr) == {tr[i].h : i \in {j \in 1..Len(tr) : tr[j].f = "init" /\ tr[j].h # NULL}}

\* The handles the calls tr release (passed to esp_http_client_cleanup).
Released(tr) == {tr[i].h : i \in {j \in 1..Len(tr) : tr[j].f = "cleanup"}}

\* The state a callback leaves behind: its result, the fields it assigned, and
\* the transport's handles as its calls tr left them.
Done(name, r, o, c, inf, tr, hs, sw, hi) ==
    /\ op' = name
    /\ ret' = r
    /\ is_open' = o
    /\ client' = c
    /\ live' = (live \cup Created(tr)) \ Released(tr)
    /\ nextHandle' = nextHandle + Cardinality(Created(tr))
    /\ info' = inf
    /\ calls' = tr
    /\ headers' = hs
    /\ stale_write' = sw
    /\ hist' = hi
    /\ UNCHANGED <<stream_type, hook, uri, el_state>>

-----------------------------------------------------------------------------
\* http_stream_init and the framework's construction of the element.
Init ==
    /\ stream_type \in {AUDIO_STREAM_READER, AUDIO_STREAM_WRITER}
    /\ hook \in BOOLEAN
    /\ uri = FALSE
    /\ el_state = "AEL_STATE_INIT"
    /\ is_open = FALSE
    /\ client = NULL
    /\ live = {}
    /\ nextHandle = 1
    /\ info = [byte_pos |-> 0, total_bytes |-> 0, codec_fmt |-> "AUDIO_CODEC_NONE"]
    /\ op = "init"
    /\ ret = 0
    /\ calls = <<>>
    /\ headers = <<>>
    /\ stale_write = FALSE
    /\ hist = NoHist

-----------------------------------------------------------------------------
\* _http_open

\* Mutant of OpenRejected: the "already opened" check is missing.
OpenRejected_NoOpenCheck(u, o) == u = FALSE

\* The two checks _http_open makes before it touches anything.
OpenRejected(u, o) == u = FALSE \/ o

\* The Range header _http_open sets on the new transport: the calls it adds.
RangeHeader(h, pos) ==
    IF pos # 0 THEN <<Call("set_header_Range", h, ToInt(pos))>> ELSE <<>>

\* The test on the PreRequest hook's result that makes _http_open give up.
PreRequestAborts(r) == r # ESP_OK

\* Mutant of NeedBodyWrite: the hook's result is not looked at.
NeedBodyWrite_IgnoreHook(post_len, buffer, wrlen) == post_len # 0 /\ buffer

\* The test that makes the reader's open write the pending body itself.
NeedBodyWrite(post_len, buffer, wrlen) == post_len # 0 /\ buffer /\ wrlen = 0

\* Results of esp_http_client_write for len bytes: error, nothing, all of it.
WriteRets(len) == {-1, 0, len}

\* Mutant of OpenFails: the failing return marks the element open.
OpenFails_SetsOpen(r, h, tr) ==
    Done("open", r, TRUE, h, info, tr, <<>>, FALSE, NoHist)

\* A failing return of _http_open after the transport was created: the handle
\* stays in http->client, nothing is published.
OpenFails(r, h, tr) ==
    Done("open", r, is_open, h, info, tr, <<>>, FALSE, NoHist)

\* Mutant of StatusAborts: the return after "Invalid HTTP stream" is active.
StatusAborts_Active(status) == status # HTTP_OK

\* Whether the status code makes the reader's open give up: the return under
\* the status test is commented out, only the log line remains.
StatusAborts(status) == FALSE

\* The reader's open from the header fetch on.
ReaderFetch(h, tr) ==
    \E total \in TotalLens, hs \in HeaderSeqs, status \in StatusCodes :
        LET seen == ObserveHeaders(info, hs)
            local == [seen EXCEPT !.total_bytes = total]
            tr2 == tr \o <<Call("fetch_headers", h, total),
                           Call("get_status_code", h, status)>>
        IN IF StatusAborts(status) THEN OpenFails(ESP_FAIL, h, tr2)
           ELSE Done("open", ESP_OK, TRUE, h, local, tr2, hs, FALSE,
                     [phase |-> "reading", P |-> info.byte_pos, S |-> 0])

\* The reader's open from the PostRequest hook on.
ReaderPostRequest(h, tr) ==
    \E post \in dispatch_hook :
        LET tr2 == Append(tr, Call("hook_POST_REQUEST", h, post))
        IN IF post < 0
           THEN OpenFails(ESP_FAIL, h, Append(tr2, Call("close", h, 0)))
           ELSE ReaderFetch(h, tr2)

\* The reader's open from the OnRequest hook on.
ReaderOnRequest(h, tr, post_len) ==
    \E wrlen \in dispatch_hook :
        LET tr2 == Append(tr, Call("hook_ON_REQUEST", h, wrlen))
        IN IF wrlen < 0 THEN OpenFails(ESP_FAIL, h, tr2)
           ELSE IF NeedBodyWrite(post_len, post_len > 0, wrlen)
           THEN \E w \in WriteRets(post_len) :
                    LET tr3 == tr2 \o CallRet("write", h, post_len, w)
                    IN IF w <= 0 THEN OpenFails(ESP_FAIL, h, tr3)
                       ELSE ReaderPostRequest(h, tr3)
           ELSE ReaderPostRequest(h, tr2)

\* The reader branch of _http_open.
ReaderOpen(h, tr) ==
    \E post_len \in PostLens, err \in OpenErrs :
        LET tr2 == tr \o CallRet("open", h, post_len, err)
        IN IF err # ESP_OK THEN OpenFails(ESP_FAIL, h, tr2)
           ELSE ReaderOnRequest(h, tr2, post_len)

\* The writer branch of _http_open.
WriterOpen(h, tr) ==
    \E err \in OpenErrs :
        Done("open", err, IF err = ESP_OK THEN TRUE ELSE is_open, h,
             info, tr \o CallRet("open", h, -1, err), <<>>, FALSE, NoHist)

http_open ==
    IF OpenRejected(uri, is_open)
    THEN Done("open", ESP_FAIL, is_open, client, info, <<>>, <<>>, FALSE, NoHist)
    ELSE \E h \in InitResults :
        IF h = NULL
        THEN Done("open", ESP_ERR_NO_MEM, is_open, NULL, info,
                  <<Call("init", NULL, 0)>>, <<>>, FALSE, NoHist)
        ELSE \E pre \in dispatch_hook :
            LET tr == <<Call("init", h, 0)>> \o RangeHeader(h, info.byte_pos)
                      \o <<Call("hook_PRE_REQUEST", h, pre)>>
            IN IF PreRequestAborts(pre) THEN OpenFails(ESP_FAIL, h, tr)
               ELSE IF stream_type = AUDIO_STREAM_WRITER THEN WriterOpen(h, tr)
               ELSE ReaderOpen(h, tr)

-----------------------------------------------------------------------------
\* _http_read

\* Mutant of ReadAdvance: the count is stored, not added.
ReadAdvance_Assign(pos, rlen) == IF rlen <= 0 THEN pos ELSE rlen

\* byte_pos after a read that returns rlen.
ReadAdvance(pos, rlen) == IF rlen <= 0 THEN pos ELSE pos + rlen

\* The cycle history after a read that returns rlen.
HistRead(rlen) ==
    IF hist.phase = "reading"
    THEN [hist EXCEPT !.S = IF rlen > 0 THEN @ + rlen ELSE @]
    ELSE NoHist

ReadDone(rlen, tr) ==
    /\ ReadAdvance(info.byte_pos, rlen) <= MaxPos
    /\ Done("read", rlen, is_open, client,
            [info EXCEPT !.byte_pos = ReadAdvance(@, rlen)], tr, <<>>, FALSE,
            HistRead(rlen))

\* Mutant of ReadDefers: a failing hook is treated like a deferring one.
ReadDefers_OnFailureToo(wrlen) == wrlen <= 0

\* The test on the OnResponse hook's result that makes _http_read read from
\* the transport.
ReadDefers(wrlen) == wrlen = 0

\* Installed as the element's read callback for a reader only; the pipeline
\* reads only from an element whose open() succeeded and that it has not closed.
http_read ==
    /\ stream_type = AUDIO_STREAM_READER
    /\ is_open
    /\ \E len \in ReadLens, wrlen \in dispatch_hook :
        LET tr == <<Call("hook_ON_RESPONSE", client, wrlen)>>
        IN IF ReadDefers(wrlen)
           THEN \E rlen \in {r \in ReadRets : r <= len} :
                    ReadDone(rlen, tr \o CallRet("read", client, len, rlen))
           ELSE ReadDone(wrlen, tr)

-----------------------------------------------------------------------------
\* _http_write

\* Mutant of WriteHandled: a deferring hook is taken as having sent the data.
WriteHandled_OnDeferToo(wrlen) == wrlen >= 0

\* The test on the OnRequest hook's result that makes _http_write return it
\* without writing to the transport.
WriteHandled(wrlen) == wrlen > 0

\* Installed as the element's write callback for a writer only; the pipeline
\* writes only to an element whose open() succeeded and that it has not closed.
http_write ==
    /\ stream_type = AUDIO_STREAM_WRITER
    /\ is_open
    /\ \E len \in WriteLens, wrlen \in dispatch_hook :
        LET tr == <<Call("hook_ON_REQUEST", client, wrlen)>>
        IN IF wrlen < 0
           THEN Done("write", ESP_FAIL, is_open, client, info, tr, <<>>, FALSE, NoHist)
           ELSE IF WriteHandled(wrlen)
           THEN Done("write", wrlen, is_open, client, info, tr, <<>>, FALSE, NoHist)
           ELSE \E w \in WriteRets(len) :
                    Done("write", w, is_open, client, info,
                         tr \o CallRet("write", client, len, w), <<>>, FALSE, NoHist)

-----------------------------------------------------------------------------
\* _http_close

\* Mutant of CloseBytePos: the reset does not look at the element state.
CloseBytePos_AlwaysReset(st, pos) == 0

\* byte_pos as _http_close leaves it, given the element state.
CloseBytePos(st, pos) == IF AEL_STATE_PAUSED # st THEN 0 ELSE pos

\* Mutant of CloseRelease: the transport is closed but never cleaned up.
CloseRelease_NoCleanup(c) == <<Call("close", c, 0)>>

\* The calls that follow the loop of _http_close, whatever the loop did.
CloseRelease(c) == <<Call("close", c, 0), Call("cleanup", c, 0)>>

\* The cycle history after a close.
HistClose ==
    IF hist.phase = "reading" /\ is_open
    THEN [hist EXCEPT !.phase = IF el_state = AEL_STATE_PAUSED
                                THEN "closed_paused" ELSE "closed_other"]
    ELSE NoHist

CloseDone(tr, hs, sw) ==
    Done("close", ESP_OK, FALSE, client,
         [info EXCEPT !.byte_pos = CloseBytePos(el_state, @)],
         tr \o CloseRelease(client), hs, sw, HistClose)

\* Mutant of CloseHookStops: a deferring hook leaves the loop as well.
CloseHookStops_OnDeferToo(r) == r <= 0

\* The test on a hook's result that leaves the while loop of _http_close.
CloseHookStops(r) == r < 0

\* The body of the while loop for a writer: PostRequest, header fetch,
\* FinishRequest.  The fetch runs the event handler on the info record of the
\* _http_open that created the transport, which has returned.
WriterCloseLoop ==
    \E post \in dispatch_hook :
        LET tr == <<Call("hook_POST_REQUEST", client, post)>>
        IN IF CloseHookStops(post) THEN CloseDone(tr, <<>>, FALSE)
           ELSE \E total \in TotalLens, hs \in HeaderSeqs, fin \in dispatch_hook :
                CloseDone(tr \o <<Call("fetch_headers", client, total),
                                  Call("hook_FINISH_REQUEST", client, fin)>>,
                          hs, \E i \in 1..Len(hs) : IsCodecHeader(hs[i].key))

http_close ==
    IF is_open
    THEN IF stream_type # AUDIO_STREAM_WRITER
         THEN CloseDone(<<>>, <<>>, FALSE)
         ELSE WriterCloseLoop
    ELSE CloseDone(<<>>, <<>>, FALSE)

-----------------------------------------------------------------------------
\* The framework, between callbacks.

\* audio_element_set_uri: the pipeline gives the element its URI.
set_uri ==
    /\ ~uri
    /\ uri' = TRUE
    /\ op' = "set_uri" /\ ret' = 0 /\ calls' = <<>> /\ headers' = <<>>
    /\ stale_write' = FALSE
    /\ UNCHANGED <<stream_type, hook, el_state, is_open, client, live, nextHandle,
                   info, hist>>

\* The pipeline moves the element to another state (run, pause, ...).
set_state ==
    /\ \E st \in ElStates \ {el_state} : el_state' = st
    /\ op' = "set_state" /\ ret' = 0 /\ calls' = <<>> /\ headers' = <<>>
    /\ stale_write' = FALSE
    /\ UNCHANGED <<stream_type, hook, uri, is_open, client, live, nextHandle,
                   info, hist>>

Next ==
    \/ http_open
    \/ http_read
    \/ http_write
    \/ http_close
    \/ set_uri
    \/ set_state

Spec == Init /\ [][Next]_vars

-----------------------------------------------------------------------------
\* The header observer on its own: a reader's open() has reached its header
\* fetch, the transport parses a response and raises one HTTP_EVENT_ON_HEADER
\* per header; info is the record the handler was bound to (the local copy of
\* _http_open), ret counts the events raised so far.

SniffInit ==
    /\ stream_type = AUDIO_STREAM_READER
    /\ hook = FALSE
    /\ uri = TRUE
    /\ el_state = "AEL_STATE_RUNNING"
    /\ is_open = FALSE
    /\ client = 1
    /\ live = {1}
    /\ nextHandle = 2
    /\ info = [byte_pos |-> 0, total_bytes |-> 0, codec_fmt |-> "AUDIO_CODEC_NONE"]
    /\ op = "fetch_headers"
    /\ ret = 0
    /\ calls = <<>>
    /\ headers \in UNION { [1..n -> SniffHeaders] : n \in 0..MaxSniffHeaders }
    /\ stale_write = FALSE
    /\ hist = NoHist

\* The transport raises the next header event.
on_header ==
    /\ op \in {"fetch_headers", "on_header"}
    /\ ret < Len(headers)
    /\ info' = http_event_handle(info, headers[ret + 1])
    /\ ret' = ret + 1
    /\ op' = "on_header"
    /\ UNCHANGED <<stream_type, hook, uri, el_state, is_open, client, live,
                   nextHandle, calls, headers, stale_write, hist>>

SniffNext == on_header

SniffSpec == SniffInit /\ [][SniffNext]_vars

-----------------------------------------------------------------------------
\* Properties.

\* The positions in the calls tr of the calls named f.
Idx(tr, f) == {i \in 1..Len(tr) : tr[i].f = f}

HookCalls == {"hook_PRE_REQUEST", "hook_ON_REQUEST", "hook_ON_RESPONSE",
              "hook_POST_REQUEST", "hook_FINISH_REQUEST"}

\* C1: between calls the element holds exactly one live transport handle, its
\* own, while is_open, and no live handle while not is_open.
C1_HandleBalance ==
    IF is_open THEN live = {client} ELSE live = {}

\* C2: an open() on an element that is already open or has no URI fails and
\* changes nothing: the published info, is_open, the handle and the set of live
\* transports stay, and it makes no transport call and dispatches no hook.
C2_RejectedOpenMutatesNothing ==
    [][(op' = "open" /\ (is_open \/ ~uri))
        => /\ ret' # ESP_OK
           /\ calls' = <<>>
           /\ info' = info
           /\ is_open' = is_open
           /\ client' = client
           /\ live' = live
           /\ nextHandle' = nextHandle]_vars

\* An open() was rejected on an element that is open and holds a transport.
C2_Witness ==
    op = "open" /\ is_open /\ ret = ESP_FAIL /\ calls = <<>> /\ client \in live

\* C3: an open() during which a hook returned a negative value fails, and the
\* transport it created is released when it returns.
C3_HookAbortReleases ==
    (op = "open" /\ \E i \in 1..Len(calls) : calls[i].f \in HookCalls /\ calls[i].a < 0)
        => ret # ESP_OK /\ Created(calls) \cap live = {}

\* C4: a close() on an element that is not open does nothing: no transport
\* call, no hook, no change of the published info or of any other state.
C4_CloseWhenNotOpenIsNoOp ==
    [][(op' = "close" /\ ~is_open)
        => /\ calls' = <<>>
           /\ info' = info
           /\ is_open' = is_open
           /\ client' = client
           /\ live' = live]_vars

\* C5: a close() on an open element closes its transport once, releases it
\* once, touches no other handle and leaves is_open false, whatever the hooks
\* returned.
C5_CloseReleasesOnce ==
    [][(op' = "close" /\ is_open)
        => /\ ~is_open'
           /\ Cardinality(Idx(calls', "close")) = 1
           /\ Cardinality(Idx(calls', "cleanup")) = 1
           /\ \A i \in Idx(calls', "close") \cup Idx(calls', "cleanup") :
                  calls'[i].h = client
           /\ \A i \in Idx(calls', "close") : \A j \in Idx(calls', "cleanup") : i < j
           /\ client \notin live'
           /\ live' = live \ {client}]_vars

\* A close() of an open writer whose FinishRequest hook failed has released the
\* transport.
C5_Witness ==
    /\ op = "close"
    /\ \E i \in 1..Len(calls) : calls[i].f = "hook_FINISH_REQUEST" /\ calls[i].a < 0
    /\ client \notin live

\* C6: a read() that returns K > 0 leaves the published byte_pos K higher
\* than it found it; a read() that returns K <= 0 leaves it as it was.
C6_ReadAdvancesBytePos ==
    [][op' = "read"
        => /\ (ret' > 0 => info'.byte_pos = info.byte_pos + ret')
           /\ (ret' <= 0 => info'.byte_pos = info.byte_pos)]_vars

\* A read() the hook answered with a positive count advanced a byte_pos that
\* was not 0 before.
C6_Witness ==
    /\ op = "read"
    /\ ret > 0
    /\ Idx(calls, "read") = {}
    /\ info.byte_pos > ret

\* C7: a close() on an open element leaves byte_pos as it was when the
\* element state is paused; in any other state it sets byte_pos to 0 and
\* leaves total_bytes and codec_fmt as they were.
C7_CloseBytePos ==
    [][(op' = "close" /\ is_open)
        => IF el_state = AEL_STATE_PAUSED
           THEN info'.byte_pos = info.byte_pos
           ELSE info' = [info EXCEPT !.byte_pos = 0]]_vars

\* An open reader that had read data was closed while paused and kept its
\* byte_pos.
C7_Witness ==
    /\ op = "close"
    /\ hist.phase = "closed_paused"
    /\ hist.S > 0
    /\ info.byte_pos > 0

\* C8: an open() that gets past its checks and creates a transport sets the
\* Range header bytes=N- on it exactly when byte_pos = N > 0, before the
\* PreRequest hook and before the transport is opened.
C8_RangeHeader ==
    [][(op' = "open" /\ uri /\ ~is_open /\ Created(calls') # {})
        => LET R == Idx(calls', "set_header_Range")
           IN IF info.byte_pos > 0
              THEN /\ Cardinality(R) = 1
                   /\ \A r \in R :
                        /\ calls'[r].a = info.byte_pos
                        /\ calls'[r].h \in Created(calls')
                        /\ \A k \in Idx(calls', "hook_PRE_REQUEST") \cup Idx(calls', "open") :
                               r < k
              ELSE R = {}]_vars

\* C9: a reader opened at byte_pos P, whose reads then returned positive
\* counts summing to S, closed while paused and opened again sends Range
\* bytes=(P+S)- with the second open(); closed while not paused it sends no
\* Range header.
C9_ResumeAcrossPause ==
    [][(op' = "open" /\ Created(calls') # {})
        => LET R == Idx(calls', "set_header_Range")
           IN /\ (hist.phase = "closed_paused" /\ hist.S > 0)
                    => /\ Cardinality(R) = 1
                       /\ \A r \in R : calls'[r].a = hist.P + hist.S
              /\ hist.phase = "closed_other" => R = {}]_vars

\* C10: in a reader's open() with a pending body of L > 0 bytes: OnRequest
\* returning 0 makes the element write the L bytes once, after the transport
\* is opened and before PostRequest; a positive result makes it write nothing;
\* a negative result makes it write nothing and fail.
C10_PendingBodyWrite ==
    op = "open"
        => \A i \in Idx(calls, "open") : \A j \in Idx(calls, "hook_ON_REQUEST") :
            calls[i].a > 0
                => LET W == Idx(calls, "write")
                   IN /\ calls[j].a = 0
                            => /\ Cardinality(W) = 1
                               /\ \A k \in W :
                                    /\ calls[k].a = calls[i].a
                                    /\ i < k
                                    /\ \A p \in Idx(calls, "hook_POST_REQUEST") : k < p
                      /\ calls[j].a > 0 => W = {}
                      /\ calls[j].a < 0 => W = {} /\ ret # ESP_OK

\* A reader's open() wrote the pending body after a registered hook deferred,
\* went on to PostRequest and succeeded.
C10_Witness ==
    /\ op = "open"
    /\ hook
    /\ ret = ESP_OK
    /\ Idx(calls, "write") # {}
    /\ Idx(calls, "hook_POST_REQUEST") # {}

\* Whether the C string s holds the marker m at offset k, ignoring case.
HasAt(s, m, k) == \A i \in 1..Len(m) : tolower(CharAt(s, k + i)) = tolower(m[i])

\* Whether the C string s contains the marker m, ignoring case.
Contains(s, m) == \E k \in 0..Len(s) : HasAt(s, m, k)

\* The codec a header value stands for: the first marker it contains.
Classify(v) ==
    IF Contains(v, S_audio_mp3) \/ Contains(v, S_audio_mpeg) THEN "AUDIO_CODEC_MP3"
    ELSE IF Contains(v, S_audio_aac) THEN "AUDIO_CODEC_AAC"
    ELSE IF Contains(v, S_audio_wav) THEN "AUDIO_CODEC_WAV"
    ELSE IF Contains(v, S_audio_opus) THEN "AUDIO_CODEC_OPUS"
    ELSE "AUDIO_CODEC_NONE"

\* C11: the codec the observer stores for a Content-Type or
\* Content-Disposition header is the one whose marker the value contains,
\* ignoring case and trailing parameters; NONE when it contains no marker.
C11_Classifier ==
    (op = "on_header" /\ IsCodecHeader(headers[ret].key))
        => info.codec_fmt = Classify(headers[ret].value)

\* The classification of the first codec header of hs that classifies as
\* something; dflt when none does.
RECURSIVE FirstCodec(_, _)
FirstCodec(hs, dflt) ==
    IF hs = <<>> THEN dflt
    ELSE IF IsCodecHeader(Head(hs).key) /\ Classify(Head(hs).value) # "AUDIO_CODEC_NONE"
    THEN Classify(Head(hs).value)
    ELSE FirstCodec(Tail(hs), dflt)

\* C12: when all headers of one fetch have been observed, codec_fmt is the
\* classification of the first Content-Type / Content-Disposition header that
\* classifies as a codec; later headers and headers of other names do not
\* change it.
C12_FirstClassificationWins ==
    (op = "on_header" /\ ret = Len(headers))
        => info.codec_fmt = FirstCodec(headers, "AUDIO_CODEC_NONE")

\* C13: the header observer runs only in the header fetch of a reader's
\* open(), never in another callback, and never writes through an info record
\* whose _http_open has returned.
C13_ObserverOnlyInReaderOpen ==
    /\ headers # <<>> => op = "open" /\ stream_type = AUDIO_STREAM_READER
    /\ ~stale_write

\* C14: in open(), only a negative PreRequest result aborts; after a zero or
\* a positive result open() goes on to open the transport.
C14_PreRequestContract ==
    op = "open"
        => \A i \in Idx(calls, "hook_PRE_REQUEST") :
            /\ calls[i].a < 0 => ret # ESP_OK /\ Idx(calls, "open") = {}
            /\ calls[i].a >= 0 => Idx(calls, "open") # {}

\* The names of the calls tr, in order.
Names(tr) == [i \in 1..Len(tr) |-> tr[i].f]

\* C15: write() dispatches OnRequest first; a positive hook result is
\* returned with no transport write, a zero result (or no hook) leads to
\* exactly one transport write of len bytes whose result is returned
\* unchanged, a negative result gives failure with no transport write.
C15_WriteContract ==
    op = "write"
        => /\ Len(calls) >= 1 /\ calls[1].f = "hook_ON_REQUEST"
           /\ Cardinality({i \in 1..Len(calls) : calls[i].f \in HookCalls}) = 1
           /\ calls[1].a > 0 => ret = calls[1].a /\ Idx(calls, "write") = {}
           /\ calls[1].a < 0 => ret = ESP_FAIL /\ Idx(calls, "write") = {}
           /\ calls[1].a = 0
                => /\ Names(calls) = <<"hook_ON_REQUEST", "write", "write_returned">>
                   /\ calls[2].a \in WriteLens
                   /\ ret = calls[3].a

\* A write() deferred to the transport, which wrote nothing or failed.
C15_Witness ==
    /\ op = "write" /\ hook /\ ret <= 0
    /\ Idx(calls, "write") # {}

\* C16: read() dispatches OnResponse first; a positive hook result is
\* returned with no transport read, a zero result (or no hook) leads to
\* exactly one transport read of up to maxLen bytes whose count is returned,
\* a negative result is returned as it is with no transport read.
C16_ReadContract ==
    op = "read"
        => /\ Len(calls) >= 1 /\ calls[1].f = "hook_ON_RESPONSE"
           /\ Cardinality({i \in 1..Len(calls) : calls[i].f \in HookCalls}) = 1
           /\ calls[1].a # 0 => ret = calls[1].a /\ Idx(calls, "read") = {}
           /\ calls[1].a = 0
                => /\ Names(calls) = <<"hook_ON_RESPONSE", "read", "read_returned">>
                   /\ calls[2].a \in ReadLens
                   /\ ret = calls[3].a /\ ret <= calls[2].a

\* A read() whose hook failed: the failure comes back, the transport is not read.
C16_Witness ==
    /\ op = "read" /\ ret < 0
    /\ Idx(calls, "read") = {}

\* C17: close() on an open writer dispatches PostRequest, fetches the headers,
\* dispatches FinishRequest, closes and releases the transport, in this order
\* and each once; a negative PostRequest result skips the fetch and
\* FinishRequest, a negative FinishRequest result skips nothing, the release
\* happens in every case.  close() on an open reader dispatches no hook and
\* fetches no headers.
C17_CloseSequence ==
    [][(op' = "close" /\ is_open)
        => IF stream_type = AUDIO_STREAM_WRITER
           THEN /\ Len(calls') >= 1 /\ calls'[1].f = "hook_POST_REQUEST"
                /\ Names(calls') =
                     IF calls'[1].a < 0
                     THEN <<"hook_POST_REQUEST", "close", "cleanup">>
                     ELSE <<"hook_POST_REQUEST", "fetch_headers",
                            "hook_FINISH_REQUEST", "close", "cleanup">>
                /\ \A i \in 1..Len(calls') : calls'[i].h = client
           ELSE Names(calls') = <<"close", "cleanup">>]_vars

\* An open writer's close() whose FinishRequest hook failed, and one whose
\* PostRequest deferred.
C17_Witness ==
    /\ op = "close" /\ stream_type = AUDIO_STREAM_WRITER
    /\ \E i \in Idx(calls, "hook_POST_REQUEST") : calls[i].a = 0
    /\ \E i \in Idx(calls, "hook_FINISH_REQUEST") : calls[i].a < 0

\* The results the transport reported for its calls named f in tr.
Returned(tr, f) == {tr[i].a : i \in Idx(tr, f \o "_returned")}

\* C18: a reader's open() in which the transport opened, no hook returned a
\* negative value and every pending-body write succeeded returns ESP_OK with
\* is_open set, whatever the status code of the response, and total_bytes is
\* what the header fetch returned.
C18_StatusNeverFailsOpen ==
    (/\ op = "open" /\ stream_type = AUDIO_STREAM_READER
     /\ ESP_OK \in Returned(calls, "open")
     /\ \A i \in 1..Len(calls) : calls[i].f \in HookCalls => calls[i].a >= 0
     /\ \A w \in Returned(calls, "write") : w > 0)
        => /\ ret = ESP_OK /\ is_open
           /\ Cardinality(Idx(calls, "fetch_headers")) = 1
           /\ Cardinality(Idx(calls, "get_status_code")) = 1
           /\ \A i \in Idx(calls, "fetch_headers") : info.total_bytes = calls[i].a

\* A reader's open() that met a 404 after a pending body was written.
C18_Witness ==
    /\ op = "open" /\ stream_type = AUDIO_STREAM_READER /\ ret = ESP_OK /\ is_open
    /\ \E i \in Idx(calls, "get_status_code") : calls[i].a # HTTP_OK
    /\ Returned(calls, "write") # {}
    /\ info.total_bytes > 0

\* C19 as stated: every open() that fails leaves is_open FALSE and the
\* published info as it was, and is_open turns TRUE only in an open() that
\* returns ESP_OK.
C19_FailedOpenLeavesClosed ==
    [][/\ (op' = "open" /\ ret' # ESP_OK) => (~is_open' /\ info' = info)
       /\ (~is_open /\ is_open') => (op' = "open" /\ ret' = ESP_OK)]_vars

\* C19 amended: every open() that fails leaves is_open as it was (FALSE,
\* but TRUE when the open was rejected because the element is already open)
\* and the published info as it was, and is_open turns TRUE only in an open()
\* that returns ESP_OK.
C19_FailedOpenChangesNothing ==
    [][/\ (op' = "open" /\ ret' # ESP_OK)
            => /\ is_open' = is_open /\ info' = info
               /\ is_open' => calls' = <<>>
       /\ (~is_open /\ is_open') => (op' = "open" /\ ret' = ESP_OK)]_vars

\* A failed open() on an element that is open and has read data.
C19_Witness ==
    /\ op = "open" /\ ret # ESP_OK /\ is_open
    /\ info.byte_pos > 0

\* C20: every transport close and release the element makes is given a handle
\* that is live at that moment: returned by an init, not yet released.
C20_ReleaseTargetsLiveHandle ==
    [][\A i \in 1..Len(calls') :
        calls'[i].f \in {"close", "cleanup"}
            => /\ calls'[i].h # NULL
               /\ calls'[i].h \in live \cup Created(calls')
               /\ \A j \in 1..(i - 1) :
                    calls'[j].f = "cleanup" => calls'[j].h # calls'[i].h]_vars

====
